---- MODULE Spec2Model ----
(***************************************************************************)
(* Model of the Steiner system searcher of src/src/lib.rs:                 *)
(*   permutations, larger_sets (pure functions on Vec<usize>),             *)
(*   SteinerSearcher::new, SteinerSearcher::get_item_permutations and the   *)
(*   Iterator::next loop of SteinerSearcher.                                *)
(* Vec<T> is a TLA+ sequence (1-based), HashSet a set, HashMap a function   *)
(* whose DOMAIN is the set of keys.                                         *)
(***************************************************************************)
EXTENDS Integers, Sequences, FiniteSets, TLC

\* ------------------------------------------------------------------------
\* Bounds of the model
\* ------------------------------------------------------------------------

\* largest universe size n (and so largest t, k) the constructor is given
MaxN == 4

\* largest sequence length handed to permutations on its own; its elements are 1..MaxLen
MaxLen == 4

\* largest digit handed to larger_sets on its own
MaxDigit == 5

\* stands for usize::MAX, the largest value of the field i; no run gets near it
MaxPops == 6000

\* ------------------------------------------------------------------------
\* Vec helpers (std semantics)
\* ------------------------------------------------------------------------

\* let x = v; Body(x): v is evaluated once, whatever the number of uses of x
Let(v, Body(_)) ==
    CHOOSE r \in {Body(x) : x \in {v}} : TRUE

\* Iterator::collect::<Vec<_>>(): the function on 1..m as a sequence value
Collect(f) ==
    f \o <<>>

\* Iterator::flat_map(..).collect() over a sequence of Vecs: concatenation in order
RECURSIVE FlattenRange(_, _, _)
FlattenRange(ss, lo, hi) ==
    IF lo > hi THEN <<>>
    ELSE IF lo = hi THEN ss[lo]
    ELSE LET mid == (lo + hi) \div 2
         IN  FlattenRange(ss, lo, mid) \o FlattenRange(ss, mid + 1, hi)

Flatten(ss) ==
    Let(Collect(ss), LAMBDA v : FlattenRange(v, 1, Len(v)))

\* Vec::remove(i) (0-based i in the source, 1-based here): the Vec without position i
RemoveAt(s, i) ==
    SubSeq(s, 1, i - 1) \o SubSeq(s, i + 1, Len(s))

\* Vec::insert(idx, x) with 0-based idx: x ends up at 1-based position idx + 1
InsertAt(s, idx, x) ==
    SubSeq(s, 1, idx) \o <<x>> \o SubSeq(s, idx + 1, Len(s))

\* the set of the elements of a Vec
Elems(s) ==
    {s[j] : j \in 1..Len(s)}

\* slice::contains
Contains(s, x) ==
    \E j \in 1..Len(s) : s[j] = x

\* Ord for usize and Ord for Vec<usize> (lexicographic, a proper prefix is less):
\* -1 for Less, 0 for Equal, 1 for Greater
CmpNat(a, b) ==
    IF a < b THEN -1 ELSE IF a = b THEN 0 ELSE 1

RECURSIVE CmpVec(_, _)
CmpVec(a, b) ==
    IF a = <<>> THEN (IF b = <<>> THEN 0 ELSE -1)
    ELSE IF b = <<>> THEN 1
    ELSE IF Head(a) < Head(b) THEN -1
    ELSE IF Head(a) > Head(b) THEN 1
    ELSE CmpVec(Tail(a), Tail(b))

\* Ord for Vec<Vec<usize>> (lexicographic over CmpVec)
RECURSIVE CmpVecVec(_, _)
CmpVecVec(a, b) ==
    IF a = <<>> THEN (IF b = <<>> THEN 0 ELSE -1)
    ELSE IF b = <<>> THEN 1
    ELSE IF CmpVec(Head(a), Head(b)) /= 0 THEN CmpVec(Head(a), Head(b))
    ELSE CmpVecVec(Tail(a), Tail(b))

\* slice::binary_search(&x).map_or_else(|x| x, |x| x) on a Vec<usize>:
\* the 0-based index of a match, or else the 0-based insertion point
RECURSIVE BinarySearchNat(_, _, _, _)
BinarySearchNat(s, x, lo, hi) ==
    IF lo >= hi THEN lo
    ELSE LET mid == lo + ((hi - lo) \div 2)
             c   == CmpNat(s[mid + 1], x)
         IN  IF c = 0 THEN mid
             ELSE IF c < 0 THEN BinarySearchNat(s, x, mid + 1, hi)
             ELSE BinarySearchNat(s, x, lo, mid)

\* variant: always the end of the searched range, so that the insert appends
BinarySearchVec_end(s, x, lo, hi) ==
    hi

\* the same on a Vec<Vec<usize>> (the blocks of a SteinerSearch)
RECURSIVE BinarySearchVec(_, _, _, _)
BinarySearchVec(s, x, lo, hi) ==
    IF lo >= hi THEN lo
    ELSE LET mid == lo + ((hi - lo) \div 2)
             c   == CmpVec(s[mid + 1], x)
         IN  IF c = 0 THEN mid
             ELSE IF c < 0 THEN BinarySearchVec(s, x, mid + 1, hi)
             ELSE BinarySearchVec(s, x, lo, mid)

\* ------------------------------------------------------------------------
\* permutations (lib.rs 10-21)
\* ------------------------------------------------------------------------

\* variant: the recursion goes into set[i..] instead of set[i + 1..]
RECURSIVE permutations_from_i(_, _)
permutations_from_i(set, size) ==
    IF size = 0 THEN << <<>> >>
    ELSE Flatten([idx \in 1..Len(set) |->
            Let(permutations_from_i(SubSeq(set, idx, Len(set)), size - 1),
                LAMBDA sub : Collect([j \in 1..Len(sub) |-> <<set[idx]>> \o sub[j]]))])

RECURSIVE permutations(_, _)
permutations(set, size) ==
    IF size = 0 THEN << <<>> >>
    ELSE Flatten([idx \in 1..Len(set) |->
            Let(permutations(SubSeq(set, idx + 1, Len(set)), size - 1),
                LAMBDA sub : Collect([j \in 1..Len(sub) |-> <<set[idx]>> \o sub[j]]))])

\* ------------------------------------------------------------------------
\* larger_sets (lib.rs 29-50)
\* ------------------------------------------------------------------------

RECURSIVE larger_sets(_, _, _)
larger_sets(starting_set, available_digits, target_size) ==
    IF Len(starting_set) = target_size THEN <<starting_set>>
    ELSE Flatten([idx \in 1..Len(available_digits) |->
            LET new_digit == available_digits[idx]
            IN  Let(InsertAt(starting_set,
                        BinarySearchNat(starting_set, new_digit, 0, Len(starting_set)),
                        new_digit),
                    LAMBDA new_set :
                        Let(RemoveAt(available_digits, idx),
                            LAMBDA remaining :
                                larger_sets(new_set, remaining, target_size)))])

\* ------------------------------------------------------------------------
\* State
\* ------------------------------------------------------------------------

VARIABLES
    pc,               \* "start": before SteinerSearcher::new; "panicked": its assert failed;
                      \* "idle": constructed, no call of next in progress; "running": inside next
    t, k, n,          \* arguments of new, then the fields of the same name
    fringe,           \* Vec<SteinerSearch>: records [set, unused_permutations, used_permutations]
    set_permutations, \* HashMap<Vec<usize>, Vec<Vec<usize>>>
    dead_ends,        \* HashSet<Vec<Vec<usize>>>
    explored,         \* HashSet<Vec<Vec<usize>>>
    i,                \* the field i, counting pops
    tick,             \* what the last observer.tick() returned
    ret,              \* what the last finished call of next returned
    emitted,          \* the designs the caller has collected, in order
    expanded,         \* history: the signatures that passed the explored test, in order
    call,             \* arguments of a direct call of permutations / larger_sets
    out,              \* its result
    twin              \* a second SteinerSearcher made with the same t, k, n and pulled
                      \* on its own: a record of its pc, fields, tick, ret and emitted

vars == <<pc, t, k, n, fringe, set_permutations, dead_ends, explored, i, tick,
          ret, emitted, expanded, call, out, twin>>

searcher == <<fringe, set_permutations, dead_ends, explored, i>>

harness == <<call, out>>

NoCall == [fn |-> "none"]

Pending == [tag |-> "pending"]

NotCalled == [tag |-> "NotCalled", val |-> <<>>]

None == [tag |-> "None", val |-> <<>>]

Some(v) == [tag |-> "Some", val |-> v]

\* (1..=n).collect::<Vec<_>>()
Range(m) == [x \in 1..m |-> x]

EmptyMap == [b \in {} |-> <<>>]

\* the second searcher before its SteinerSearcher::new
TwinStart ==
    [pc |-> "start", fringe |-> <<>>, set_permutations |-> EmptyMap, dead_ends |-> {},
     explored |-> {}, i |-> 0, tick |-> FALSE, ret |-> NotCalled, emitted |-> <<>>]

\* ------------------------------------------------------------------------
\* SteinerSearcher::new (lib.rs 72-92)
\* ------------------------------------------------------------------------

\* variant: the assert! without its second conjunct
ValidParameters_t_k_only(t0, k0, n0) ==
    t0 < k0

\* the condition of the assert!
ValidParameters(t0, k0, n0) ==
    t0 < k0 /\ k0 < n0

\* the single SteinerSearch pushed by new
InitialSearch(t0, n0) ==
    [set |-> <<>>,
     unused_permutations |-> permutations(Range(n0), t0),
     used_permutations |-> <<>>]

Init ==
    /\ pc = "start"
    /\ t \in 0..MaxN /\ k \in 0..MaxN /\ n \in 0..MaxN
    /\ fringe = <<>>
    /\ set_permutations = EmptyMap
    /\ dead_ends = {}
    /\ explored = {}
    /\ i = 0
    /\ tick = FALSE
    /\ ret = NotCalled
    /\ emitted = <<>>
    /\ expanded = <<>>
    /\ call = NoCall
    /\ out = Pending
    /\ twin = TwinStart

new ==
    /\ pc = "start"
    /\ IF ValidParameters(t, k, n)
       THEN /\ fringe' = <<InitialSearch(t, n)>>
            /\ set_permutations' = EmptyMap
            /\ dead_ends' = {}
            /\ explored' = {}
            /\ i' = 0
            /\ pc' = "idle"
       ELSE /\ pc' = "panicked"
            /\ UNCHANGED searcher
    /\ UNCHANGED <<t, k, n, tick, ret, emitted, expanded, harness, twin>>

\* ------------------------------------------------------------------------
\* SteinerSearcher::get_item_permutations (lib.rs 94-102)
\* ------------------------------------------------------------------------

\* returns the list and the map after the call
get_item_permutations(memo, set) ==
    IF set \in DOMAIN memo
    THEN [permutes |-> memo[set], memo |-> memo]
    ELSE LET permutes == permutations(set, t)
         IN  [permutes |-> permutes, memo |-> (set :> permutes) @@ memo]

\* ------------------------------------------------------------------------
\* Iterator::next (lib.rs 108-179)
\* ------------------------------------------------------------------------

\* variant: last() instead of pop(), the state stays on the fringe
PopRest_keeps(f) ==
    f

\* variant: the oldest state is taken away, as from a queue
PopRest_front(f) ==
    Tail(f)

\* line 110: the fringe after Vec::pop
PopRest(f) ==
    SubSeq(f, 1, Len(f) - 1)

\* variant: the signature is not recorded
ExploredInsert_forgets(expl, sig) ==
    expl

\* line 112: HashSet::insert of the popped signature
ExploredInsert(expl, sig) ==
    expl \cup {sig}

\* variant: complete already when one t-combination is left
IsComplete_one_left(steiner_set) ==
    Len(steiner_set.unused_permutations) <= 1

\* line 115: unused_permutations.is_empty()
IsComplete(steiner_set) ==
    steiner_set.unused_permutations = <<>>

\* lines 143-145: the test that rejects a candidate signature
Rejected(dead, expl, sig) ==
    sig \in dead \/ sig \in expl

\* variant: all() instead of any()
Overlaps_all(used, larger_set_permutations) ==
    /\ used /= <<>>
    /\ \A p \in 1..Len(used) : Contains(larger_set_permutations, used[p])

\* lines 128-132: some covered t-combination is among those of the new block
Overlaps(used, larger_set_permutations) ==
    \E p \in 1..Len(used) : Contains(larger_set_permutations, used[p])

\* lines 126-154: the body of the for loop for one larger_set; st is the clone with
\* the chosen t-combination removed.  The result is the Vec of what the body pushes:
\* nothing after a continue, else the one new state.  memo is the map as it is
\* when the expansion starts: the entries added meanwhile are permutations(key, t)
\* (lines 98-99), which is also what a lookup of a vacant key returns.
Candidate(st, larger_set, memo, dead, expl) ==
    Let(get_item_permutations(memo, larger_set).permutes,
        LAMBDA larger_set_permutations :
            IF Overlaps(st.used_permutations, larger_set_permutations)
            THEN <<>>
            ELSE Let(InsertAt(st.set,
                         BinarySearchVec(st.set, larger_set, 0, Len(st.set)),
                         larger_set),
                     LAMBDA blocks :
                         IF Rejected(dead, expl, blocks)
                         THEN <<>>
                         ELSE << [set |-> blocks,
                                  unused_permutations |->
                                      SelectSeq(st.unused_permutations,
                                          LAMBDA p : ~Contains(larger_set_permutations, p)),
                                  used_permutations |->
                                      st.used_permutations \o larger_set_permutations] >>))

\* line 122: (1..=n).filter(|x| !permutation.contains(x)).collect()
AvailableDigits(permutation) ==
    SelectSeq(Range(n), LAMBDA x : ~Contains(permutation, x))

\* line 125: the blocks tried for the uncovered t-combination at position idx
LargerSetsAt(steiner_set, idx) ==
    larger_sets(steiner_set.unused_permutations[idx],
                AvailableDigits(steiner_set.unused_permutations[idx]), k)

\* lines 119-156: the closure of the flat_map for position idx: new_sets
NewSets(steiner_set, idx, memo, dead, expl) ==
    Let([steiner_set EXCEPT
            !.unused_permutations = RemoveAt(steiner_set.unused_permutations, idx)],
        LAMBDA st :
            Let(LargerSetsAt(steiner_set, idx),
                LAMBDA ls :
                    Flatten([j \in 1..Len(ls) |-> Candidate(st, ls[j], memo, dead, expl)])))

\* lines 118-158: new_fringe before the sort
NewFringe(steiner_set, memo, dead, expl) ==
    Flatten([idx \in 1..Len(steiner_set.unused_permutations) |->
                NewSets(steiner_set, idx, memo, dead, expl)])

\* variant: the map keeps only the blocks of the last expansion
MemoAfter_replaces(steiner_set, memo) ==
    Let(UNION {Elems(LargerSetsAt(steiner_set, idx)) :
                  idx \in 1..Len(steiner_set.unused_permutations)},
        LAMBDA keys : [b \in keys |-> get_item_permutations(memo, b).permutes])

\* set_permutations after the expansion: get_item_permutations was called for every
\* larger_set of every position (line 127), consistent or not
MemoAfter(steiner_set, memo) ==
    Let(UNION {Elems(LargerSetsAt(steiner_set, idx)) :
                  idx \in 1..Len(steiner_set.unused_permutations)},
        LAMBDA keys :
            [b \in (DOMAIN memo) \cup keys |-> get_item_permutations(memo, b).permutes])

\* the sequence of the elements of s at the positions in keep, in order of position
Retained(s, keep) ==
    Collect([p \in 1..Cardinality(keep) |->
        s[CHOOSE j \in keep : Cardinality({m \in keep : m < j}) = p - 1]])

\* line 172: sort_by(|a, b| a.set.cmp(&b.set)), a stable sort: the element at
\* position j goes after the elements that are less, and after the equal ones before it
SortBySet(s) ==
    Let(Collect([j \in 1..Len(s) |->
            Cardinality({m \in 1..Len(s) :
               \/ CmpVecVec(s[m].set, s[j].set) < 0
               \/ CmpVecVec(s[m].set, s[j].set) = 0 /\ m < j})]),
        LAMBDA rank :
            Collect([p \in 1..Len(s) |-> s[CHOOSE j \in 1..Len(s) : rank[j] = p - 1]]))

\* variant: dedup_by(|a, b| a.set.len() == b.set.len())
DedupBySet_by_len(s) ==
    Let({j \in 1..Len(s) : j = 1 \/ Len(s[j].set) /= Len(s[j - 1].set)},
        LAMBDA keep : Retained(s, keep))

\* line 173: dedup_by(|a, b| a.set == b.set): drops every element whose set equals
\* that of the element before it, so the first of each run stays
DedupBySet(s) ==
    Let({j \in 1..Len(s) : j = 1 \/ s[j].set /= s[j - 1].set},
        LAMBDA keep : Retained(s, keep))

\* variant: sorted, and every state kept
SortDedup_nodedup(new_fringe) ==
    SortBySet(new_fringe)

\* lines 172-173: sort_by and dedup_by on the blocks
SortDedup(new_fringe) ==
    Let(SortBySet(new_fringe), LAMBDA sorted : DedupBySet(sorted))

\* variant: a reporting step takes the generated states away
ObserverTick_drains(tk, new_fringe) ==
    IF tk THEN <<>> ELSE new_fringe

\* lines 159-168: new_fringe after the block of observer.tick(), which returned tk;
\* the println! reads self.i and the lengths and writes to stdout
ObserverTick(tk, new_fringe) ==
    new_fringe

\* the caller pulls: a call of next begins
next_call ==
    /\ pc = "idle"
    /\ pc' = "running"
    /\ UNCHANGED <<t, k, n, searcher, tick, ret, emitted, expanded, harness, twin>>

\* one iteration of the while let loop (lines 110-176); i < MaxPops is the room left
\* in the usize counter.  The println of lines 160-167 writes to stdout only.
next_iteration ==
    /\ pc = "running"
    /\ fringe /= <<>>
    /\ i < MaxPops
    /\ LET steiner_set == fringe[Len(fringe)]
           rest == PopRest(fringe)
           inserted == ExploredInsert(explored, steiner_set.set)
       IN  /\ i' = i + 1
           /\ IF steiner_set.set \in explored
              THEN \* line 113: continue
                   /\ fringe' = rest
                   /\ pc' = "running"
                   /\ UNCHANGED <<set_permutations, dead_ends, explored, tick,
                                  ret, emitted, expanded>>
              ELSE /\ explored' = inserted
                   /\ expanded' = Append(expanded, steiner_set.set)
                   /\ IF IsComplete(steiner_set)
                      THEN \* line 116: return Some(steiner_set.set)
                           /\ fringe' = rest
                           /\ ret' = Some(steiner_set.set)
                           /\ emitted' = Append(emitted, steiner_set.set)
                           /\ pc' = "idle"
                           /\ UNCHANGED <<set_permutations, dead_ends, tick>>
                      ELSE \E generated \in {NewFringe(steiner_set, set_permutations,
                                                        dead_ends, inserted)} :
                           \E tk \in BOOLEAN :
                           \E new_fringe \in {ObserverTick(tk, generated)} :
                               /\ set_permutations' = MemoAfter(steiner_set, set_permutations)
                               /\ tick' = tk
                               /\ IF new_fringe = <<>>
                                  THEN /\ dead_ends' = dead_ends \cup {steiner_set.set}
                                       /\ fringe' = rest
                                  ELSE /\ dead_ends' = dead_ends
                                       /\ fringe' = rest \o SortDedup(new_fringe)
                               /\ pc' = "running"
                               /\ UNCHANGED <<ret, emitted>>
    /\ UNCHANGED <<t, k, n, harness, twin>>

\* variant: the search starts over when it is exhausted
next_none_restarts ==
    /\ pc = "running"
    /\ fringe = <<>>
    /\ ret' = None
    /\ pc' = "idle"
    /\ fringe' = <<InitialSearch(t, n)>>
    /\ UNCHANGED <<t, k, n, set_permutations, dead_ends, explored, i, tick,
                   emitted, expanded, harness, twin>>

\* line 177: the loop ends on an empty fringe, next returns None
next_none ==
    /\ pc = "running"
    /\ fringe = <<>>
    /\ ret' = None
    /\ pc' = "idle"
    /\ UNCHANGED <<t, k, n, searcher, tick, emitted, expanded, harness, twin>>

Next ==
    \/ new
    \/ next_call
    \/ next_iteration
    \/ next_none

Spec == Init /\ [][Next]_vars

\* the code runs on while it can, and the caller keeps pulling
FairSpec ==
    /\ Spec
    /\ WF_vars(new)
    /\ WF_vars(next_call)
    /\ WF_vars(next_iteration)
    /\ WF_vars(next_none)

\* ------------------------------------------------------------------------
\* A second searcher with the same arguments, run next to the first
\* ------------------------------------------------------------------------

twin_new ==
    /\ twin.pc = "start"
    /\ IF ValidParameters(t, k, n)
       THEN twin' = [twin EXCEPT !.fringe = <<InitialSearch(t, n)>>, !.pc = "idle"]
       ELSE twin' = [twin EXCEPT !.pc = "panicked"]
    /\ UNCHANGED <<pc, t, k, n, searcher, tick, ret, emitted, expanded, harness>>

twin_call ==
    /\ twin.pc = "idle"
    /\ twin' = [twin EXCEPT !.pc = "running"]
    /\ UNCHANGED <<pc, t, k, n, searcher, tick, ret, emitted, expanded, harness>>

\* one iteration of the while let loop (lines 110-176) in the second searcher
twin_iteration ==
    /\ twin.pc = "running"
    /\ twin.fringe /= <<>>
    /\ twin.i < MaxPops
    /\ LET steiner_set == twin.fringe[Len(twin.fringe)]
           rest == PopRest(twin.fringe)
           inserted == ExploredInsert(twin.explored, steiner_set.set)
       IN  IF steiner_set.set \in twin.explored
           THEN twin' = [twin EXCEPT !.i = @ + 1, !.fringe = rest]
           ELSE IF IsComplete(steiner_set)
                THEN twin' = [twin EXCEPT !.i = @ + 1,
                                          !.explored = inserted,
                                          !.fringe = rest,
                                          !.ret = Some(steiner_set.set),
                                          !.emitted = Append(@, steiner_set.set),
                                          !.pc = "idle"]
                ELSE \E generated \in {NewFringe(steiner_set, twin.set_permutations,
                                                 twin.dead_ends, inserted)} :
                     \E tk \in BOOLEAN :
                     \E new_fringe \in {ObserverTick(tk, generated)} :
                         twin' = [twin EXCEPT
                                    !.i = @ + 1,
                                    !.explored = inserted,
                                    !.set_permutations = MemoAfter(steiner_set, @),
                                    !.tick = tk,
                                    !.dead_ends = IF new_fringe = <<>>
                                                  THEN @ \cup {steiner_set.set}
                                                  ELSE @,
                                    !.fringe = IF new_fringe = <<>>
                                               THEN rest
                                               ELSE rest \o SortDedup(new_fringe)]
    /\ UNCHANGED <<pc, t, k, n, searcher, tick, ret, emitted, expanded, harness>>

twin_none ==
    /\ twin.pc = "running"
    /\ twin.fringe = <<>>
    /\ twin' = [twin EXCEPT !.ret = None, !.pc = "idle"]
    /\ UNCHANGED <<pc, t, k, n, searcher, tick, ret, emitted, expanded, harness>>

NextTwin ==
    \/ Next
    \/ twin_new
    \/ twin_call
    \/ twin_iteration
    \/ twin_none

SpecTwin == Init /\ [][NextTwin]_vars

\* ------------------------------------------------------------------------
\* Scenario C of the spec: new_search(2, 3, 7), next to the small parameters
\* ------------------------------------------------------------------------

ScenarioC == <<2, 3, 7>>

InitScenarioC ==
    /\ pc = "start"
    /\ \/ t \in 0..MaxN /\ k \in 0..MaxN /\ n \in 0..MaxN
       \/ t = ScenarioC[1] /\ k = ScenarioC[2] /\ n = ScenarioC[3]
    /\ fringe = <<>>
    /\ set_permutations = EmptyMap
    /\ dead_ends = {}
    /\ explored = {}
    /\ i = 0
    /\ tick = FALSE
    /\ ret = NotCalled
    /\ emitted = <<>>
    /\ expanded = <<>>
    /\ call = NoCall
    /\ out = Pending
    /\ twin = TwinStart

SpecScenarioC == InitScenarioC /\ [][Next]_vars

\* ------------------------------------------------------------------------
\* permutations and larger_sets called on their own
\* ------------------------------------------------------------------------

Done(v) == [tag |-> "done", val |-> v]

\* the strictly ascending sequence of the elements of a set of numbers
RECURSIVE Ascending(_)
Ascending(S) ==
    IF S = {} THEN <<>>
    ELSE LET m == CHOOSE x \in S : \A y \in S : x <= y
         IN  <<m>> \o Ascending(S \ {m})

\* the searcher is not constructed in these runs
Unconstructed ==
    /\ pc = "start"
    /\ t = 0 /\ k = 0 /\ n = 0
    /\ fringe = <<>>
    /\ set_permutations = EmptyMap
    /\ dead_ends = {}
    /\ explored = {}
    /\ i = 0
    /\ tick = FALSE
    /\ ret = NotCalled
    /\ emitted = <<>>
    /\ expanded = <<>>
    /\ twin = TwinStart

InitPermutations ==
    /\ Unconstructed
    /\ \E len \in 0..MaxLen :
       \E set \in [1..len -> 1..MaxLen] :
       \E size \in 0..(MaxLen + 1) :
           call = [fn |-> "permutations", set |-> set, size |-> size]
    /\ out = Pending

call_permutations ==
    /\ call.fn = "permutations"
    /\ out = Pending
    /\ out' = Done(permutations(call.set, call.size))
    /\ UNCHANGED <<pc, t, k, n, searcher, tick, ret, emitted, expanded, call, twin>>

SpecPermutations == InitPermutations /\ [][call_permutations]_vars

InitLargerSets ==
    /\ Unconstructed
    /\ \E S \in SUBSET (1..MaxDigit) :
       \E pool \in SUBSET ((1..MaxDigit) \ S) :
       \E target \in (Cardinality(S) + 1)..MaxDigit :
           call = [fn |-> "larger_sets", starting_set |-> Ascending(S),
                   available_digits |-> Ascending(pool), target_size |-> target]
    /\ out = Pending

call_larger_sets ==
    /\ call.fn = "larger_sets"
    /\ out = Pending
    /\ out' = Done(larger_sets(call.starting_set, call.available_digits, call.target_size))
    /\ UNCHANGED <<pc, t, k, n, searcher, tick, ret, emitted, expanded, call, twin>>

SpecLargerSets == InitLargerSets /\ [][call_larger_sets]_vars

\* ------------------------------------------------------------------------
\* Vocabulary of the properties
\* ------------------------------------------------------------------------

Subsets(S, m) == {x \in SUBSET S : Cardinality(x) = m}

StrictlyAscending(s) == \A j \in 1..(Len(s) - 1) : s[j] < s[j + 1]

NoRepeats(s) == \A a, b \in 1..Len(s) : a /= b => s[a] /= s[b]

RECURSIVE Binomial(_, _)
Binomial(a, b) ==
    IF b = 0 THEN 1
    ELSE IF a = 0 THEN 0
    ELSE Binomial(a - 1, b - 1) + Binomial(a - 1, b)

\* the subsequence of s at the positions in I
Pick(s, I) ==
    LET ix == Ascending(I) IN Collect([p \in 1..Len(ix) |-> s[ix[p]]])

IsSubsequence(a, b) ==
    \E I \in Subsets(1..Len(b), Len(a)) : Pick(b, I) = a

Valid == t < k /\ k < n

\* a returned design as a set of sets
DesignOf(d) == {Elems(d[b]) : b \in 1..Len(d)}

\* all Steiner systems S(t,k,n) on 1..n, by definition
SteinerSystems ==
    {D \in SUBSET Subsets(1..n, k) :
        \A T \in Subsets(1..n, t) : Cardinality({B \in D : T \subseteq B}) = 1}

\* ------------------------------------------------------------------------
\* Properties
\* ------------------------------------------------------------------------

\* C1: in every design returned by next, every block is a k-element subset of 1..n and
\* every t-element subset of 1..n is a subsequence of exactly one block.
C1_ExactCover ==
    \A d \in 1..Len(emitted) :
        /\ \A b \in 1..Len(emitted[d]) :
              /\ Len(emitted[d][b]) = k
              /\ Cardinality(Elems(emitted[d][b])) = k
              /\ Elems(emitted[d][b]) \subseteq 1..n
        /\ \A T \in Subsets(1..n, t) :
              Cardinality({b \in 1..Len(emitted[d]) :
                              IsSubsequence(Ascending(T), emitted[d][b])}) = 1

C1_Witness ==
    /\ <<t, k, n>> = <<1, 2, 4>>
    /\ Len(emitted) >= 2

\* C2: when next has returned None, every Steiner system S(t,k,n) on 1..n has been
\* returned, relabelings included; for (1,2,4) these are the three perfect matchings.
C2_Exhaustive ==
    ret = None =>
        /\ \A D \in SteinerSystems : \E d \in 1..Len(emitted) : DesignOf(emitted[d]) = D
        /\ <<t, k, n>> = <<1, 2, 4>> =>
              {<< <<1, 2>>, <<3, 4>> >>, << <<1, 3>>, <<2, 4>> >>, << <<1, 4>>, <<2, 3>> >>}
                  \subseteq Elems(emitted)

C2_Witness ==
    /\ ret = None
    /\ <<t, k, n>> = <<1, 2, 4>>
    /\ Len(emitted) = 3

\* C3: no signature passes the explored test twice, so no partial design is expanded
\* twice and no design is returned twice.
C3_NoSignatureTwice ==
    /\ NoRepeats(expanded)
    /\ NoRepeats(emitted)

C3_Witness ==
    /\ ret = None
    /\ Len(expanded) >= 10
    /\ Len(emitted) >= 2

\* C4: every returned design has exactly C(n,t) / C(k,t) blocks; for (2,3,7) a design
\* is returned before next returns None, and every returned design has 7 blocks, each
\* a 3-subset of 1..7.
C4_BlockCount ==
    /\ \A d \in 1..Len(emitted) :
          Len(emitted[d]) * Binomial(k, t) = Binomial(n, t)
    /\ <<t, k, n>> = ScenarioC =>
          /\ ret = None => Len(emitted) >= 1
          /\ \A d \in 1..Len(emitted) :
                /\ Len(emitted[d]) = 7
                /\ \A b \in 1..7 :
                      /\ Len(emitted[d][b]) = 3
                      /\ Elems(emitted[d][b]) \in Subsets(1..7, 3)

C4_Witness ==
    /\ <<t, k, n>> = ScenarioC
    /\ pc = "idle"
    /\ ret.tag = "Some"
    /\ Len(ret.val) = 7
    /\ emitted = <<ret.val>>

\* C5: when no Steiner system exists for valid parameters, as for (1,2,3), no design is
\* ever returned, every finished call of next has returned None, and nothing panics.
C5_NoSystemEndsAtOnce ==
    (Valid /\ (SteinerSystems = {} \/ <<t, k, n>> = <<1, 2, 3>>)) =>
        /\ emitted = <<>>
        /\ ret \in {NotCalled, None}
        /\ pc /= "panicked"

C5_Witness ==
    /\ <<t, k, n>> = <<1, 2, 3>>
    /\ ret = None
    /\ pc = "idle"

\* C6: new panics exactly when t < k < n does not hold, and then nothing has been
\* built; otherwise the searcher starts with one state on the fringe, with no blocks,
\* nothing covered and all C(n,t) t-combinations uncovered, and with empty caches.
C6_Construction ==
    /\ pc = "panicked" =>
          /\ ~Valid
          /\ fringe = <<>>
          /\ set_permutations = EmptyMap
          /\ dead_ends = {}
          /\ explored = {}
    /\ pc \in {"idle", "running"} => Valid
    /\ (pc = "idle" /\ ret = NotCalled) =>
          /\ Len(fringe) = 1
          /\ fringe[1].set = <<>>
          /\ fringe[1].used_permutations = <<>>
          /\ Len(fringe[1].unused_permutations) = Binomial(n, t)
          /\ NoRepeats(fringe[1].unused_permutations)
          /\ Elems(fringe[1].unused_permutations) = {Ascending(T) : T \in Subsets(1..n, t)}
          /\ set_permutations = EmptyMap
          /\ dead_ends = {}
          /\ explored = {}

C6_Witness ==
    /\ pc = "panicked"
    /\ <<t, k, n>> = <<3, 2, 4>>

\* C7: every call of next returns, and for valid parameters repeated calls reach the
\* point where next has returned None on an empty fringe.
C7_Termination ==
    /\ (pc = "running") ~> (pc = "idle")
    /\ (pc = "start" /\ Valid) ~> (pc = "idle" /\ ret = None /\ fringe = <<>>)

C7_Witness ==
    /\ pc = "idle"
    /\ ret = None
    /\ fringe = <<>>
    /\ emitted /= <<>>

\* C8: next returns None only on an empty fringe; after a None every step leaves the
\* return value None and the fringe and the caches as they are; a call that returns a
\* design only takes that state off the fringe and records it as explored, and the
\* next call starts from what the last one left.
C8_PullProtocol ==
    [][ /\ (pc = "running" /\ pc' = "idle" /\ ret' = None) =>
              (fringe = <<>> /\ fringe' = <<>>)
        /\ ret = None =>
              /\ ret' = None
              /\ UNCHANGED <<fringe, set_permutations, dead_ends, explored>>
        /\ (pc = "running" /\ pc' = "idle" /\ ret'.tag = "Some") =>
              /\ fringe /= <<>>
              /\ fringe' = SubSeq(fringe, 1, Len(fringe) - 1)
              /\ explored' = explored \cup {ret'.val}
              /\ UNCHANGED <<set_permutations, dead_ends>>
        /\ (pc = "idle" /\ pc' = "running") => UNCHANGED searcher
      ]_vars

C8_Witness ==
    /\ ret = None
    /\ pc = "running"
    /\ emitted /= <<>>

\* C9: larger_sets(S, pool, k) returns C(|pool|, k - |S|) pairwise distinct entries,
\* each a strictly ascending k-element superset of S with its other elements from the
\* pool, and together all such supersets.
C9_LargerSetsContract ==
    out.tag = "done" =>
        LET S    == call.starting_set
            pool == call.available_digits
            more == call.target_size - Len(S)
        IN  /\ Len(out.val) = Binomial(Len(pool), more)
            /\ NoRepeats(out.val)
            /\ \A j \in 1..Len(out.val) :
                  /\ StrictlyAscending(out.val[j])
                  /\ Len(out.val[j]) = call.target_size
                  /\ Elems(S) \subseteq Elems(out.val[j])
                  /\ Elems(out.val[j]) \ Elems(S) \subseteq Elems(pool)
            /\ Elems(out.val) =
                  {Ascending(Elems(S) \cup C) : C \in Subsets(Elems(pool), more)}

\* C10: permutations(seq, size) returns every selection of size positions of seq, in
\* seq's order, exactly once: C(|seq|, size) results, << <<>> >> for size 0 and <<>>
\* for size > |seq|.
C10_PermutationsContract ==
    out.tag = "done" =>
        LET seq  == call.set
            size == call.size
            all  == {Pick(seq, I) : I \in Subsets(1..Len(seq), size)}
        IN  /\ Len(out.val) = Binomial(Len(seq), size)
            /\ size = 0 => out.val = << <<>> >>
            /\ size > Len(seq) => out.val = <<>>
            /\ Elems(out.val) = all
            /\ \A v \in all :
                  Cardinality({j \in 1..Len(out.val) : out.val[j] = v})
                      = Cardinality({I \in Subsets(1..Len(seq), size) : Pick(seq, I) = v})

C10_Witness ==
    /\ out.tag = "done"
    /\ call.set = <<1, 2, 3, 4>>
    /\ call.size = 2
    /\ Len(out.val) = 6

\* the t-combinations of 1..n, and those of a block, as ascending sequences
TCombos == {Ascending(T) : T \in Subsets(1..n, t)}

CombosOf(block) == {Ascending(T) : T \in Subsets(Elems(block), t)}

\* C12: every signature in dead_ends is a partial design without valid completion: no
\* Steiner system S(t,k,n) on 1..n contains all its blocks.
C12_DeadEndsHaveNoCompletion ==
    \A sig \in dead_ends :
        ~ \E D \in SteinerSystems : DesignOf(sig) \subseteq D

\* C13: in every state on the fringe, uncovered and covered are without repeats,
\* disjoint and together all C(n,t) t-combinations; covered is the union of the
\* t-combinations of the blocks, and no two blocks share a t-combination.
PartitionOK(st) ==
    /\ NoRepeats(st.unused_permutations)
    /\ NoRepeats(st.used_permutations)
    /\ Elems(st.unused_permutations) \cap Elems(st.used_permutations) = {}
    /\ Elems(st.unused_permutations) \cup Elems(st.used_permutations) = TCombos
    /\ Len(st.unused_permutations) + Len(st.used_permutations) = Binomial(n, t)
    /\ Elems(st.used_permutations) = UNION {CombosOf(st.set[b]) : b \in 1..Len(st.set)}
    /\ \A a, b \in 1..Len(st.set) :
          a /= b => CombosOf(st.set[a]) \cap CombosOf(st.set[b]) = {}

C13_Partition ==
    \A f \in 1..Len(fringe) : PartitionOK(fringe[f])

C13_Witness ==
    /\ t >= 1
    /\ \E f \in 1..Len(fringe) :
          /\ Len(fringe[f].set) >= 1
          /\ fringe[f].unused_permutations /= <<>>
          /\ fringe[f].used_permutations /= <<>>

\* C14: every blocks sequence on the fringe, in explored, in dead_ends and in a
\* returned design is strictly ascending in lexicographic order, and each of its
\* blocks is a strictly ascending sequence of k elements of 1..n.
Canonical(sig) ==
    /\ \A b \in 1..(Len(sig) - 1) : CmpVec(sig[b], sig[b + 1]) < 0
    /\ \A b \in 1..Len(sig) :
          /\ Len(sig[b]) = k
          /\ StrictlyAscending(sig[b])
          /\ Elems(sig[b]) \subseteq 1..n

C14_CanonicalSignatures ==
    /\ \A f \in 1..Len(fringe) : Canonical(fringe[f].set)
    /\ \A sig \in explored : Canonical(sig)
    /\ \A sig \in dead_ends : Canonical(sig)
    /\ \A d \in 1..Len(emitted) : Canonical(emitted[d])

C14_Witness ==
    /\ \E sig \in explored : Len(sig) >= 2
    /\ \E f \in 1..Len(fringe) : Len(fringe[f].set) >= 1
    /\ \E d \in 1..Len(emitted) : Len(emitted[d]) >= 2

\* the state popped by a step of the loop, and the states the step pushes
Popped == fringe[Len(fringe)]

Pushed == SubSeq(fringe', Len(fringe), Len(fringe'))

PopStep == pc = "running" /\ i' = i + 1

\* C16: no state is pushed whose signature is in explored or dead_ends at the time of
\* the push, every pushed state is the popped state with one more block whose
\* t-combinations are all uncovered in the popped state, and the states pushed by one
\* step have pairwise distinct signatures.
C16_FilteredPush ==
    [][ PopStep =>
          \A p \in 1..Len(Pushed) :
              /\ Pushed[p].set \notin explored'
              /\ Pushed[p].set \notin dead_ends'
              /\ \E B \in Elems(Pushed[p].set) :
                    /\ B \notin Elems(Popped.set)
                    /\ Elems(Pushed[p].set) = Elems(Popped.set) \cup {B}
                    /\ CombosOf(B) \cap Elems(Popped.used_permutations) = {}
              /\ \A q \in 1..Len(Pushed) :
                    q /= p => Pushed[p].set /= Pushed[q].set ]_vars

C16_Witness ==
    /\ pc = "running"
    /\ i = 1
    /\ Len(fringe) >= 3
    /\ explored = {<<>>}

\* the blocks that extend a state consistently: k-subsets of 1..n around an uncovered
\* t-combination that cover no covered one
ConsistentBlocks(st) ==
    {B \in Subsets(1..n, k) :
        /\ \E u \in Elems(st.unused_permutations) : Elems(u) \subseteq B
        /\ CombosOf(Ascending(B)) \cap Elems(st.used_permutations) = {}}

\* the designs of the candidates that survive, as sets of sets
Survivors(st, dead, expl) ==
    {DesignOf(st.set) \cup {B} : B \in ConsistentBlocks(st)}
        \ {DesignOf(sig) : sig \in dead \cup expl}

\* C17: a popped, not yet explored state with empty uncovered list is returned and
\* not added to dead_ends; one with non-empty uncovered list either has no surviving
\* candidate, and then its signature is added to dead_ends and nothing is pushed, or
\* has some, and then exactly the surviving candidates are pushed, each once, and
\* dead_ends is unchanged. No returned design is in dead_ends.
C17_ExpansionOutcome ==
    [][ /\ (PopStep /\ Popped.set \notin explored) =>
              IF Popped.unused_permutations = <<>>
              THEN /\ ret' = Some(Popped.set)
                   /\ pc' = "idle"
                   /\ dead_ends' = dead_ends
                   /\ Pushed = <<>>
              ELSE /\ ret' = ret
                   /\ pc' = "running"
                   /\ IF Survivors(Popped, dead_ends, explored') = {}
                      THEN /\ dead_ends' = dead_ends \cup {Popped.set}
                           /\ Pushed = <<>>
                      ELSE /\ dead_ends' = dead_ends
                           /\ Len(Pushed) =
                                 Cardinality(Survivors(Popped, dead_ends, explored'))
                           /\ {DesignOf(Pushed[p].set) : p \in 1..Len(Pushed)} =
                                 Survivors(Popped, dead_ends, explored')
        /\ \A d \in 1..Len(emitted') : emitted'[d] \notin dead_ends' ]_vars

C17_Witness ==
    /\ dead_ends /= {}
    /\ emitted /= <<>>
    /\ fringe /= <<>>

\* C18: the fringe is a stack: a step of the loop takes the last state of the fringe,
\* which is the one it processes, leaves the older states below in their order and
\* puts what it pushes on top; so the states lie on the fringe in order of depth, and
\* what a step pushes is popped before anything that was on the fringe already.
C18_DepthFirst ==
    [][ /\ PopStep =>
              /\ fringe /= <<>>
              /\ Popped.set \in explored'
              /\ Popped.set \notin explored => expanded' = Append(expanded, Popped.set)
              /\ Len(fringe') >= Len(fringe) - 1
              /\ SubSeq(fringe', 1, Len(fringe) - 1) = SubSeq(fringe, 1, Len(fringe) - 1)
              /\ \A p \in 1..Len(Pushed) : Len(Pushed[p].set) = Len(Popped.set) + 1
        /\ \A a, b \in 1..Len(fringe') :
              a < b => Len(fringe'[a].set) <= Len(fringe'[b].set) ]_vars

C18_Witness ==
    /\ pc = "running"
    /\ i >= 2
    /\ \E a, b \in 1..Len(fringe) :
          a < b /\ Len(fringe[a].set) < Len(fringe[b].set)

\* C19: explored, dead_ends and set_permutations never lose an entry; an entry of
\* set_permutations never changes and is the list of the t-combinations of its block,
\* each once, in lexicographic order.
C19_CachesOnlyGrow ==
    [][ /\ explored \subseteq explored'
        /\ dead_ends \subseteq dead_ends'
        /\ DOMAIN set_permutations \subseteq DOMAIN set_permutations'
        /\ \A b \in DOMAIN set_permutations : set_permutations'[b] = set_permutations[b]
        /\ \A b \in DOMAIN set_permutations' :
              /\ Elems(set_permutations'[b]) = CombosOf(b)
              /\ \A j \in 1..(Len(set_permutations'[b]) - 1) :
                    CmpVec(set_permutations'[b][j], set_permutations'[b][j + 1]) < 0 ]_vars

C19_Witness ==
    /\ set_permutations /= EmptyMap
    /\ dead_ends /= {}
    /\ Cardinality(explored) >= 3
    /\ pc = "running"

\* C20: dead_ends is always a subset of explored, so a candidate is rejected exactly
\* when its signature is in explored; every returned design is in explored and not in
\* dead_ends.
C20_DeadEndsWithinExplored ==
    /\ dead_ends \subseteq explored
    /\ \A f \in 1..Len(fringe) :
          Rejected(dead_ends, explored, fringe[f].set) <=> fringe[f].set \in explored
    /\ \A d \in 1..Len(emitted) :
          /\ emitted[d] \in explored
          /\ emitted[d] \notin dead_ends

C20_Witness ==
    /\ Cardinality(dead_ends) >= 2
    /\ Len(emitted) >= 2

\* one sequence is the beginning of the other
Comparable(a, b) ==
    \/ Len(a) <= Len(b) /\ SubSeq(b, 1, Len(a)) = a
    \/ Len(b) <= Len(a) /\ SubSeq(a, 1, Len(b)) = b

\* both searchers are constructed and at the same point of their runs
SamePoint ==
    /\ pc \in {"idle", "running"}
    /\ twin.pc = pc
    /\ twin.i = i
    /\ (ret = None) = (twin.ret = None)

\* C11: two searchers made with the same t, k, n return the same designs in the same
\* order, whatever observer.tick() returns in either: at the same point of their runs
\* they have the same fringe, caches and returned values, the designs one has returned
\* are always a beginning of those of the other, and once both returned None they
\* have returned the same.
C11_Determinism ==
    /\ Comparable(emitted, twin.emitted)
    /\ SamePoint =>
          /\ twin.fringe = fringe
          /\ twin.set_permutations = set_permutations
          /\ twin.dead_ends = dead_ends
          /\ twin.explored = explored
          /\ twin.emitted = emitted
          /\ pc = "idle" => twin.ret = ret
    /\ (ret = None /\ twin.ret = None) => twin.emitted = emitted

C11_Witness ==
    /\ ret = None
    /\ twin.ret = None
    /\ emitted /= <<>>
    /\ tick /= twin.tick
    /\ i = twin.i
    /\ i >= 3

====
